---- MODULE Spec2Model ----
(***************************************************************************)
(* A model of the generation client of the photo studio application:       *)
(* the retry wrapper, the reference-image prompt assembly and the result   *)
(* extraction of services/geminiService.ts, the suggestion call, and the   *)
(* feedback / gallery handlers of App.tsx that feed the liked-prompt list  *)
(* into a generation.                                                      *)
(* The components around it are modelled as well: the Promptor and        *)
(* refinePrompt, the TrainingWizard with analyzeImageForTraining and the   *)
(* view routing of App.tsx, and the Dashboard's product selection and      *)
(* suggestion effect.                                                      *)
(*                                                                         *)
(* JavaScript strings whose characters the code inspects (the base64 image *)
(* strings, the JSON text of a suggestion response) are sequences of       *)
(* one-character / one-token strings; strings the code only copies are     *)
(* atoms.  A template literal is the sequence of its pieces.               *)
(***************************************************************************)
EXTENDS Integers, Sequences, FiniteSets, TLC

VARIABLES
    phase,        \* retryOperation: "idle" | "ready" | "backoff" | "resolved" | "rejected"
    budget,       \* the retries argument of the outermost retryOperation call
    retries,      \* the retries argument of the current retryOperation frame
    calls,        \* number of times operation() has been invoked
    lastThrown,   \* the error thrown by the latest invocation (NoError if none)
    outcome,      \* what the outermost retryOperation promise settled with
    genArgs,      \* arguments of the generateBrandVisual call in progress
    lastRequest,  \* the request the latest performGeneration sent
    lastReply,    \* what the service answered to it
    nRequests,    \* number of generateContent requests issued by the call
    gallery,          \* App state.gallery, newest first
    likedPrompts,     \* App state.likedPrompts
    pendingFeedback,  \* handleFeedback calls awaiting db.updateImage
    pendingSaves,     \* handleImageGenerated calls awaiting db.saveImage
    isGenerating,     \* Dashboard isGenerating
    sgPhase,      \* suggestPrompts: "idle" | "pending" | "returned"
    sgReply,      \* what the service answered to the suggestion request
    sgResult,     \* what suggestPrompts returned or threw
    pInput,       \* Promptor input
    pRefined,     \* Promptor refined
    pLoading,     \* Promptor loading
    pCalls,       \* handleRefine calls awaiting refinePrompt
    pSeq,         \* number of refinements submitted so far
    pShown,       \* which submission's result setRefined stored last (0: none)
    pLast,        \* the latest settled refinePrompt call: idea, reply, result
    isLoading,    \* App isLoading
    view,         \* App view
    stateUser,    \* App state.user
    wStep,        \* TrainingWizard step
    wData,        \* TrainingWizard data
    wAnalyzing,   \* TrainingWizard isAnalyzing
    wCalls,       \* handleNext calls awaiting analyzeImageForTraining
    wSeq,         \* number of finalisations started so far
    wEvent,       \* how the latest handleNext finalisation ended
    obSaves,      \* handleOnboardingComplete calls awaiting db.saveProfile
    selectedProductIds, \* Dashboard selectedProductIds
    suggestions,  \* Dashboard suggestions
    sugCalls,     \* suggestPrompts calls of the Dashboard effect in flight
    sugSeq,       \* number of suggestPrompts calls the effect started
    sugShown,     \* which call's result setSuggestions stored last (0: none)
    genSelected,  \* selectedProductIds when handleGenerate was last called
    nFeedback,    \* number of feedback events so far
    fbLast        \* the latest feedback event: id, type

retryVars == <<phase, budget, retries, calls, lastThrown, outcome>>
genVars == <<genArgs, lastRequest, lastReply, nRequests>>
appVars == <<gallery, likedPrompts, pendingFeedback, pendingSaves, isGenerating>>
suggestVars == <<sgPhase, sgReply, sgResult>>
promptorVars == <<pInput, pRefined, pLoading, pCalls, pSeq, pShown, pLast>>
onboardVars == <<isLoading, view, stateUser, wStep, wData, wAnalyzing, wCalls, wSeq,
                 wEvent, obSaves>>
dashVars == <<selectedProductIds, suggestions, sugCalls, sugSeq, sugShown,
              genSelected, nFeedback, fbLast>>
uiVars == <<promptorVars, onboardVars, dashVars>>
clientVars == <<retryVars, genVars, appVars, suggestVars>>
vars == <<retryVars, genVars, appVars, suggestVars, uiVars>>

-----------------------------------------------------------------------------
(* Bounds of the model *)

MaxRetries == 4
MaxProducts == 2
MaxParts == 2
MaxGallery == 4
MaxPending == 1
MaxTokens == 5

-----------------------------------------------------------------------------
(* JavaScript values *)

None == [some |-> FALSE]
Some(v) == [some |-> TRUE, val |-> v]

NoError == <<>>
NoOutcome == [settled |-> FALSE]
Resolved(v) == [settled |-> TRUE, ok |-> TRUE, value |-> v]
Rejected(e) == [settled |-> TRUE, ok |-> FALSE, error |-> e]

Returns(v) == [ok |-> TRUE, value |-> v]
Throws(e) == [ok |-> FALSE, error |-> e]

NoArgs == [op |-> "none"]
NoRequest == [sent |-> FALSE]
NoReply == [kind |-> "none"]

-----------------------------------------------------------------------------
(* String operations the code applies to a base64 image string *)

\* raw.includes(c)
Includes(s, c) == \E i \in 1..Len(s) : s[i] = c

RECURSIVE TakeUntil(_, _)
\* the characters of s before the first c
TakeUntil(s, c) ==
    IF s = <<>> \/ Head(s) = c THEN <<>>
    ELSE <<Head(s)>> \o TakeUntil(Tail(s), c)

RECURSIVE DropThrough(_, _)
\* the characters of s after the first c
DropThrough(s, c) ==
    IF s = <<>> THEN <<>>
    ELSE IF Head(s) = c THEN Tail(s) ELSE DropThrough(Tail(s), c)

\* raw.split(c)[1], for a raw that includes c
SplitSecond(s, c) == TakeUntil(DropThrough(s, c), c)

\* raw.includes(',') ? raw.split(',')[1] : raw
CleanBase64(raw) == IF Includes(raw, ",") THEN SplitSecond(raw, ",") ELSE raw

\* JavaScript truthiness of a string
Truthy(s) == s # <<>>

-----------------------------------------------------------------------------
(* Profiles and generation requests *)

USER_ONLY == "USER_ONLY"
PRODUCT_ONLY == "PRODUCT_ONLY"
COMBINED == "COMBINED"
GenerationModes == {USER_ONLY, PRODUCT_ONLY, COMBINED}

NullUser == [isNull |-> TRUE]
Profile(n, imgs) == [isNull |-> FALSE, name |-> n, images |-> imgs]

\* Image strings: a data URL with a payload, a raw base64 string, a data
\* URL whose payload is empty, the empty string.
DataUrlA == <<"h", ",", "a">>
RawB == <<"b">>
DataUrlEmpty == <<"h", ",">>
EmptyString == <<>>
ImageStrings == {DataUrlA, RawB, DataUrlEmpty, EmptyString}

ImageLists == {<<>>} \cup {<<i>> : i \in ImageStrings} \cup {<<RawB, DataUrlA>>}

UserProfiles == {NullUser} \cup {Profile("Alex", imgs) : imgs \in ImageLists}

ProductCatalog ==
    { Profile("Watch", <<DataUrlA>>),
      Profile("Bag", <<RawB>>),
      Profile("Cap", <<>>),
      Profile("Mug", <<DataUrlEmpty>>),
      Profile("Pen", <<EmptyString>>) }

SeqsUpTo(S, n) == UNION {[1..k -> S] : k \in 0..n}

\* Lines of the instruction text.  A template literal is recorded by its
\* kind and the values interpolated into it.
RefLine(idx, subject) == [kind |-> "ref", idx |-> idx, arg |-> subject]
TaskLine(p) == [kind |-> "task", idx |-> 0, arg |-> p]
StyleLine(p) == [kind |-> "style", idx |-> 0, arg |-> p]
RequirementsLine == [kind |-> "requirements", idx |-> 0, arg |-> ""]
MainSubject == "Main Subject"

ImagePart(data) == [inlineData |-> [mimeType |-> "image/jpeg", data |-> data]]
TextPart(lines) == [text |-> lines]
IsImagePart(p) == "inlineData" \in DOMAIN p
IsTextPart(p) == "text" \in DOMAIN p

\* 1. Prepare User Reference: the condition under which the user's image is
\* pushed and "[REF_1] is the Main Subject" is appended.
UserAttached(mode, user) ==
    /\ mode \in {USER_ONLY, COMBINED}
    /\ ~ user.isNull
    /\ Len(user.images) > 0
    /\ Truthy(CleanBase64(user.images[1]))

\* Mutant: the offset is applied whenever a user with images exists, whatever
\* the mode.
HasUserAnyMode(mode, user) ==
    /\ ~ user.isNull
    /\ Len(user.images) > 0

\* const hasUser = (mode === COMBINED) && user && user.images.length > 0;
HasUser(mode, user) ==
    /\ mode = COMBINED
    /\ ~ user.isNull
    /\ Len(user.images) > 0

\* Mutant: the user's label is not counted.
RefIdxNoOffset(hasUser, index) == index + 1

\* const refIdx = hasUser ? index + 2 : index + 1;   (index counts from 0)
RefIdx(hasUser, index) == IF hasUser THEN index + 2 ELSE index + 1

RECURSIVE ProductLoop(_, _, _, _, _)
\* products.forEach((product, index) => { ... }) from the given index on;
\* acc holds imageParts and textInstructions.
ProductLoop(products, index, mode, user, acc) ==
    IF index >= Len(products) THEN acc
    ELSE LET product == products[index + 1]
             attach == /\ Len(product.images) > 0
                       /\ Truthy(CleanBase64(product.images[1]))
             acc2 == IF attach
                     THEN [imageParts |-> Append(acc.imageParts,
                                ImagePart(CleanBase64(product.images[1]))),
                           text |-> Append(acc.text,
                                RefLine(RefIdx(HasUser(mode, user), index), product.name))]
                     ELSE acc
         IN ProductLoop(products, index + 1, mode, user, acc2)

\* likedPrompts[0]
StylePreference(liked) == liked[1]

\* Mutant: the text part is put first.
FullPartsTextFirst(imageParts, text) == <<TextPart(text)>> \o imageParts

\* const fullParts = [...imageParts, { text: textInstructions }];
FullParts(imageParts, text) == imageParts \o <<TextPart(text)>>

\* The request performGeneration builds (lines 73-147).
AssembleRequest(a) ==
    LET afterUser ==
            IF UserAttached(a.mode, a.user)
            THEN [imageParts |-> <<ImagePart(CleanBase64(a.user.images[1]))>>,
                  text |-> <<RefLine(1, MainSubject)>>]
            ELSE [imageParts |-> <<>>, text |-> <<>>]
        afterProducts ==
            IF a.mode \in {PRODUCT_ONLY, COMBINED} /\ Len(a.products) > 0
            THEN ProductLoop(a.products, 0, a.mode, a.user, afterUser)
            ELSE afterUser
        withTask == Append(afterProducts.text, TaskLine(a.userPrompt))
        withStyle == IF Len(a.likedPrompts) > 0
                     THEN Append(withTask, StyleLine(StylePreference(a.likedPrompts)))
                     ELSE withTask
        text == Append(withStyle, RequirementsLine)
    IN [sent |-> TRUE,
        model |-> "gemini-2.5-flash-image",
        parts |-> FullParts(afterProducts.imageParts, text),
        aspectRatio |-> "1:1",
        degraded |-> (Len(FullParts(afterProducts.imageParts, text)) = 1)]

-----------------------------------------------------------------------------
(* Service responses and result extraction *)

NoInline == [present |-> FALSE]
Inline(d) == [present |-> TRUE, data |-> d]
NoText == "<absent>"

\* A content part of a response: optional inlineData, optional text.
ResponsePart(inl, txt) == [inlineData |-> inl, text |-> txt]

ResponsePartKinds ==
    { ResponsePart(Inline("x"), NoText),
      ResponsePart(Inline("y"), NoText),
      ResponsePart(Inline(""), NoText),
      ResponsePart(Inline("x"), "t1"),
      ResponsePart(NoInline, ""),
      ResponsePart(NoInline, "t1"),
      ResponsePart(NoInline, "t2"),
      ResponsePart(NoInline, NoText) }

Candidate(content) == [content |-> content]
Content(parts) == [parts |-> parts]
ImageCandidate == Candidate(Some(Content(Some(<<ResponsePart(Inline("y"), NoText)>>))))

Response(cands) == [kind |-> "response", candidates |-> cands]
NetworkFailure == [kind |-> "failure"]
NetworkError == <<"Failed to fetch">>

\* Responses whose first candidate has the given parts, alone or followed by
\* a second candidate that holds an image.
ResponsesWithParts(ps) ==
    { Response(Some(<<Candidate(Some(Content(Some(ps))))>>)),
      Response(Some(<<Candidate(Some(Content(Some(ps)))), ImageCandidate>>)) }

DegenerateResponses ==
    { Response(None),
      Response(Some(<<>>)),
      Response(Some(<<Candidate(None)>>)),
      Response(Some(<<Candidate(None), ImageCandidate>>)),
      Response(Some(<<Candidate(Some(Content(None)))>>)) }

AllReplies ==
    {NetworkFailure} \cup DegenerateResponses
      \cup UNION {ResponsesWithParts(ps) : ps \in SeqsUpTo(ResponsePartKinds, MaxParts)}

\* One reply of each class: failure, image, refusal text, nothing.
CoarseReplies ==
    { NetworkFailure,
      Response(Some(<<Candidate(Some(Content(Some(<<ResponsePart(Inline("x"), NoText)>>))))>>)),
      Response(Some(<<Candidate(Some(Content(Some(<<ResponsePart(NoInline, "t1")>>))))>>)),
      Response(None) }

\* candidates?.[0]?.content?.parts
FirstCandidateParts(response) ==
    IF /\ response.candidates.some
       /\ Len(response.candidates.val) > 0
       /\ response.candidates.val[1].content.some
    THEN response.candidates.val[1].content.val.parts
    ELSE None

PngPrefix == "data:image/png;base64,"

\* Mutant: the request's mime type is reused for the result.
DataUriJpeg(base64ImageBytes) == <<"data:image/jpeg;base64,", base64ImageBytes>>

\* `data:image/png;base64,${base64ImageBytes}`
DataUri(base64ImageBytes) == <<PngPrefix, base64ImageBytes>>

RECURSIVE FirstInline(_)
\* for (const part of parts) { if (part.inlineData) return ... }
FirstInline(parts) ==
    IF parts = <<>> THEN None
    ELSE IF Head(parts).inlineData.present THEN Some(Head(parts).inlineData.data)
    ELSE FirstInline(Tail(parts))

RECURSIVE FindTextPartDefined(_)
\* Mutant: parts.find(p => p.text !== undefined), which accepts an empty text
FindTextPartDefined(parts) ==
    IF parts = <<>> THEN None
    ELSE IF Head(parts).text # NoText THEN Some(Head(parts).text)
    ELSE FindTextPartDefined(Tail(parts))

RECURSIVE FindTextPart(_)
\* parts.find(p => p.text): the text must be present and non-empty
FindTextPart(parts) ==
    IF parts = <<>> THEN None
    ELSE IF Head(parts).text # NoText /\ Head(parts).text # "" THEN Some(Head(parts).text)
    ELSE FindTextPart(Tail(parts))

RefusalPrefix == "Model refused image generation: "
\* new Error(`Model refused image generation: ${textPart.text}`)
RefusalError(t) == <<RefusalPrefix, t>>
NoImageError == <<"No image generated. Please try a different prompt.">>

\* Lines 149-166: what performGeneration does with a response.
ExtractImage(response) ==
    LET parts == FirstCandidateParts(response)
        image == IF parts.some THEN FirstInline(parts.val) ELSE None
        textPart == IF parts.some THEN FindTextPart(parts.val) ELSE None
    IN IF image.some THEN Returns(DataUri(image.val))
       ELSE IF textPart.some THEN Throws(RefusalError(textPart.val))
       ELSE Throws(NoImageError)

\* One invocation of performGeneration, given what the awaited
\* generateContent call does.
PerformGeneration(reply) ==
    IF reply.kind = "failure" THEN Throws(NetworkError) ELSE ExtractImage(reply)

-----------------------------------------------------------------------------
(* retryOperation (geminiService.ts 9-20) *)

\* Mutant: the budget test lets one more retry through.
ShouldRetryOffByOne(r) == r >= 0

\* if (retries > 0)
ShouldRetry(r) == r > 0

\* The catch block and the return of one retryOperation frame, given what
\* the invocation of operation() did.
RetrySettle(res) ==
    IF res.ok
    THEN /\ phase' = "resolved"
         /\ outcome' = Resolved(res.value)
         /\ lastThrown' = lastThrown
    ELSE /\ lastThrown' = res.error
         /\ IF ShouldRetry(retries)
            THEN /\ phase' = "backoff"
                 /\ outcome' = outcome
            ELSE /\ phase' = "rejected"
                 /\ outcome' = Rejected(res.error)

\* await new Promise(resolve => setTimeout(resolve, 2000));
\* return retryOperation(operation, retries - 1);
BackoffElapsed ==
    /\ phase = "backoff"
    /\ phase' = "ready"
    /\ retries' = retries - 1
    /\ UNCHANGED <<budget, calls, lastThrown, outcome, genVars, appVars, suggestVars, uiVars>>

\* An operation of which the wrapper knows nothing: each invocation either
\* returns a value or throws an error.
AbstractErrors == {<<"E1">>, <<"E2">>, <<"E3">>}
AbstractValues == {"V1", "V2"}
AbstractResults == {Returns(v) : v \in AbstractValues} \cup {Throws(e) : e \in AbstractErrors}

\* try { return await operation(); } catch (error) { ... }
InvokeAbstract ==
    /\ phase = "ready"
    /\ genArgs.op = "abstract"
    /\ calls' = calls + 1
    /\ \E res \in AbstractResults : RetrySettle(res)
    /\ UNCHANGED <<budget, retries, genVars, appVars, suggestVars, uiVars>>

\* The Promptor as mounted: useState('') / useState(false).
PromptorIdle ==
    /\ pInput = <<>>
    /\ pRefined = <<>>
    /\ pLoading = FALSE
    /\ pCalls = {}
    /\ pSeq = 0
    /\ pShown = 0
    /\ pLast = NoOutcome

AppStep == [DASHBOARD |-> "DASHBOARD", ONBOARDING |-> "ONBOARDING",
            STUDIO |-> "STUDIO"]

\* TrainingWizard as mounted, and no onboarding save under way.
WizardIdle ==
    /\ wStep = 1
    /\ wData = [userImages |-> <<>>, productImages |-> <<>>,
                userName |-> "", productName |-> ""]
    /\ wAnalyzing = FALSE
    /\ wCalls = {}
    /\ wSeq = 0
    /\ wEvent = NoOutcome
    /\ obSaves = {}

\* App as mounted: the useState initial values, loadData not yet settled.
OnboardIdle ==
    /\ isLoading = TRUE
    /\ view = AppStep.DASHBOARD
    /\ stateUser = NullUser
    /\ WizardIdle

\* No Dashboard mounted and no feedback event yet.
DashIdle ==
    /\ selectedProductIds = <<>>
    /\ suggestions = [arr |-> <<>>]
    /\ sugCalls = {}
    /\ sugSeq = 0
    /\ sugShown = 0
    /\ genSelected = <<>>
    /\ nFeedback = 0
    /\ fbLast = NoOutcome


\* No application and no suggestion call.
AppAbsent ==
    /\ gallery = <<>>
    /\ likedPrompts = <<>>
    /\ pendingFeedback = {}
    /\ pendingSaves = {}
    /\ isGenerating = FALSE

SuggestIdle ==
    /\ sgPhase = "idle"
    /\ sgReply = NoReply
    /\ sgResult = NoOutcome

InitRetry ==
    /\ AppAbsent
    /\ PromptorIdle
    /\ OnboardIdle
    /\ DashIdle
    /\ SuggestIdle
    /\ phase = "ready"
    /\ budget \in 0..MaxRetries
    /\ retries = budget
    /\ calls = 0
    /\ lastThrown = NoError
    /\ outcome = NoOutcome
    /\ genArgs = [op |-> "abstract"]
    /\ lastRequest = NoRequest
    /\ lastReply = NoReply
    /\ nRequests = 0

NextRetry == InvokeAbstract \/ BackoffElapsed

SpecRetry == InitRetry /\ [][NextRetry]_vars

-----------------------------------------------------------------------------
(* generateBrandVisual (geminiService.ts 64-170) *)

\* Mutant: one retry fewer.
GenRetryBudgetOneLess == 2 - 1

\* return retryOperation(performGeneration, 2);
GenRetryBudget == 2

GenArgs(userPrompt, mode, user, products, liked) ==
    [op |-> "generate", userPrompt |-> userPrompt, mode |-> mode, user |-> user,
     products |-> products, likedPrompts |-> liked]

\* The call itself: nothing runs before retryOperation is entered.
GenerateBrandVisual(a) ==
    /\ genArgs' = a
    /\ phase' = "ready"
    /\ budget' = GenRetryBudget
    /\ retries' = GenRetryBudget
    /\ calls' = 0
    /\ nRequests' = 0
    /\ lastThrown' = NoError
    /\ outcome' = NoOutcome
    /\ lastRequest' = NoRequest
    /\ lastReply' = NoReply

\* One invocation of performGeneration by retryOperation: the request is
\* assembled and sent, the reply is awaited, the image is extracted.
Attempt(replies) ==
    /\ phase = "ready"
    /\ genArgs.op = "generate"
    /\ calls' = calls + 1
    /\ nRequests' = nRequests + 1
    /\ lastRequest' = AssembleRequest(genArgs)
    /\ \E reply \in replies :
          /\ lastReply' = reply
          /\ RetrySettle(PerformGeneration(reply))
    /\ UNCHANGED <<budget, retries, genArgs, appVars, suggestVars, uiVars>>

RetryIdle ==
    /\ phase = "idle"
    /\ budget = 0
    /\ retries = 0
    /\ calls = 0
    /\ lastThrown = NoError
    /\ outcome = NoOutcome
    /\ genArgs = NoArgs
    /\ lastRequest = NoRequest
    /\ lastReply = NoReply
    /\ nRequests = 0

InitIdle ==
    RetryIdle /\ AppAbsent /\ SuggestIdle /\ PromptorIdle /\ OnboardIdle /\ DashIdle

\* A caller invokes generateBrandVisual with arbitrary arguments.
CallGenerate ==
    /\ phase = "idle"
    /\ \E mode \in GenerationModes, user \in UserProfiles,
          products \in SeqsUpTo(ProductCatalog, MaxProducts),
          liked \in {<<>>, <<"p2", "p3">>} :
            GenerateBrandVisual(GenArgs("p1", mode, user, products, liked))
    /\ UNCHANGED <<appVars, suggestVars, uiVars>>

AttemptCoarse == Attempt(CoarseReplies)

NextAssembly == CallGenerate \/ AttemptCoarse \/ BackoffElapsed

\* Request assembly over every mode, user and product list.
Spec == InitIdle /\ [][NextAssembly]_vars

\* A caller invokes generateBrandVisual with one of a few argument lists.
CallGenerateFew ==
    /\ phase = "idle"
    /\ \E mode \in GenerationModes, products \in {<<>>, <<Profile("Watch", <<DataUrlA>>)>>} :
            GenerateBrandVisual(GenArgs("p1", mode, Profile("Alex", <<RawB>>), products, <<>>))
    /\ UNCHANGED <<appVars, suggestVars, uiVars>>

AttemptAny == Attempt(AllReplies)

NextExtract == CallGenerateFew \/ AttemptAny \/ BackoffElapsed

\* Result extraction and retry over every reply of the service.
SpecExtract == InitIdle /\ [][NextExtract]_vars

-----------------------------------------------------------------------------
(* App.tsx: gallery, feedback and the liked-prompt list; Dashboard.handleGenerate *)

NoFeedback == "none"
GeneratedImage(id, url, prompt, mode) ==
    [id |-> id, url |-> url, prompt |-> prompt, mode |-> mode, feedback |-> NoFeedback]

\* The profiles loadData found in the database.
AppUser == Profile("Alex", <<DataUrlA>>)
AppProducts == <<Profile("Watch", <<DataUrlA>>)>>

\* The gallery loadData found in the database: three earlier images, the
\* newest first, none rated yet.
StoredGallery ==
    << GeneratedImage(3, DataUri("x"), "p3", COMBINED),
       GeneratedImage(2, DataUri("x"), "p2", COMBINED),
       GeneratedImage(1, DataUri("x"), "p1", COMBINED) >>

\* Prompts typed into the Dashboard.
TypedPrompts == {"p4"}

GalleryIds == {gallery[i].id : i \in 1..Len(gallery)}

\* state.gallery.find(g => g.id === id), for an id the gallery holds
FindImage(id) == gallery[CHOOSE i \in 1..Len(gallery) : gallery[i].id = id]

\* handleFeedback up to its await: the target image is looked up in the
\* gallery and db.updateImage(updatedImg) is started.
HandleFeedback ==
    /\ Cardinality(pendingFeedback) < MaxPending
    /\ \E id \in GalleryIds, type \in {"like", "dislike"} :
          pendingFeedback' = pendingFeedback \cup
              {[id |-> id, type |-> type, targetImg |-> FindImage(id)]}
    /\ UNCHANGED <<retryVars, genVars, gallery, likedPrompts, pendingSaves,
                   isGenerating, suggestVars, uiVars>>

RECURSIVE Without(_, _)
\* list.filter(p => p !== x)
Without(list, x) ==
    IF list = <<>> THEN <<>>
    ELSE IF Head(list) = x THEN Without(Tail(list), x)
    ELSE <<Head(list)>> \o Without(Tail(list), x)

\* The functional update with the 'dislike' branch left out
NewLikedPromptsKeepsDisliked(prev, type, prompt) ==
    IF type = "like" /\ ~ Includes(prev, prompt) THEN Append(prev, prompt)
    ELSE prev

\* The functional update of lines 112-125.
NewLikedPrompts(prev, type, prompt) ==
    IF type = "like" /\ ~ Includes(prev, prompt) THEN Append(prev, prompt)
    ELSE IF type = "dislike" THEN Without(prev, prompt)
    ELSE prev

\* db.updateImage resolved: setState(prev => ...) runs.
FeedbackWritten ==
    \E c \in pendingFeedback :
        LET updatedImg == [c.targetImg EXCEPT !.feedback = c.type]
        IN /\ pendingFeedback' = pendingFeedback \ {c}
           /\ likedPrompts' = NewLikedPrompts(likedPrompts, c.type, c.targetImg.prompt)
           /\ gallery' = [i \in 1..Len(gallery) |->
                            IF gallery[i].id = c.id THEN updatedImg ELSE gallery[i]]
           /\ UNCHANGED <<retryVars, genVars, pendingSaves, isGenerating, suggestVars, uiVars>>

\* db.updateImage rejected: handleFeedback throws at its await.
FeedbackWriteFails ==
    \E c \in pendingFeedback :
        /\ pendingFeedback' = pendingFeedback \ {c}
        /\ UNCHANGED <<retryVars, genVars, gallery, likedPrompts, pendingSaves,
                       isGenerating, suggestVars, uiVars>>

\* Dashboard.handleGenerate up to its await (lines 284-299): the prompt is
\* not empty, a product is selected, generateBrandVisual is called with
\* appState.likedPrompts.
HandleGenerate ==
    /\ phase = "idle"
    /\ ~ isGenerating
    /\ Len(gallery) + Cardinality(pendingSaves) < MaxGallery
    /\ isGenerating' = TRUE
    /\ \E prompt \in TypedPrompts, mode \in GenerationModes :
          GenerateBrandVisual(GenArgs(prompt, mode, AppUser, AppProducts, likedPrompts))
    /\ UNCHANGED <<gallery, likedPrompts, pendingFeedback, pendingSaves, suggestVars, uiVars>>

\* Date.now().toString(): later than the id of every earlier image
FreshId ==
    LET used == GalleryIds \cup {img.id : img \in pendingSaves}
    IN 1 + (CHOOSE m \in used \cup {0} : \A n \in used : n <= m)

\* handleGenerate after its await (lines 300-317): on success the new image
\* is handed to onImageGenerated, whose db.saveImage is started; on failure
\* the error is shown; isGenerating is cleared either way.
HandleGenerateSettled ==
    /\ isGenerating
    /\ phase \in {"resolved", "rejected"}
    /\ pendingSaves' =
          IF phase = "resolved"
          THEN pendingSaves \cup
                 {GeneratedImage(FreshId, outcome.value, genArgs.userPrompt, genArgs.mode)}
          ELSE pendingSaves
    /\ isGenerating' = FALSE
    /\ phase' = "idle"
    /\ budget' = 0 /\ retries' = 0 /\ calls' = 0 /\ nRequests' = 0
    /\ lastThrown' = NoError /\ outcome' = NoOutcome
    /\ genArgs' = NoArgs /\ lastRequest' = NoRequest /\ lastReply' = NoReply
    /\ UNCHANGED <<gallery, likedPrompts, pendingFeedback, suggestVars, uiVars>>

\* handleImageGenerated after db.saveImage resolved (lines 100-103).
ImageSaved ==
    \E img \in pendingSaves :
        /\ pendingSaves' = pendingSaves \ {img}
        /\ gallery' = <<img>> \o gallery
        /\ UNCHANGED <<retryVars, genVars, likedPrompts, pendingFeedback,
                       isGenerating, suggestVars, uiVars>>

\* db.saveImage rejected: handleImageGenerated throws at its await.
ImageSaveFails ==
    \E img \in pendingSaves :
        /\ pendingSaves' = pendingSaves \ {img}
        /\ UNCHANGED <<retryVars, genVars, gallery, likedPrompts, pendingFeedback,
                       isGenerating, suggestVars, uiVars>>

InitApp ==
    /\ RetryIdle
    /\ SuggestIdle
    /\ PromptorIdle
    /\ isLoading = FALSE
    /\ view = AppStep.DASHBOARD
    /\ stateUser = AppUser
    /\ WizardIdle
    /\ DashIdle
    /\ gallery = StoredGallery
    /\ likedPrompts = <<>>
    /\ pendingFeedback = {}
    /\ pendingSaves = {}
    /\ isGenerating = FALSE

NextApp ==
    \/ HandleFeedback
    \/ FeedbackWritten
    \/ FeedbackWriteFails
    \/ HandleGenerate
    \/ AttemptCoarse
    \/ BackoffElapsed
    \/ HandleGenerateSettled
    \/ ImageSaved
    \/ ImageSaveFails

\* The application after startup: feedback on the gallery and generations.
SpecApp == InitApp /\ [][NextApp]_vars

-----------------------------------------------------------------------------
(* suggestPrompts (geminiService.ts 196-222) *)

\* The text of a suggestion response is a sequence of JSON tokens.
LBracket == "["
RBracket == "]"
LBrace == "{"
RBrace == "}"
Comma == ","
StrTok == "\"idea\""
NumTok == "1"
JsonTokens == {LBracket, RBracket, LBrace, RBrace, Comma, StrTok, NumTok}

JsString(x) == [str |-> x]
JsNumber(n) == [num |-> n]
JsArray(items) == [arr |-> items]
JsObject(members) == [obj |-> members]

ParseFail == [ok |-> FALSE]
ParseOk(v, rest) == [ok |-> TRUE, value |-> v, rest |-> rest]

RECURSIVE ParseValue(_)
RECURSIVE ParseElements(_, _)

\* JSON.parse's grammar over the tokens: a string, a number, an empty
\* object, an array of values.
ParseValue(ts) ==
    IF ts = <<>> THEN ParseFail
    ELSE IF Head(ts) = StrTok THEN ParseOk(JsString("idea"), Tail(ts))
    ELSE IF Head(ts) = NumTok THEN ParseOk(JsNumber(1), Tail(ts))
    ELSE IF Head(ts) = LBrace
         THEN IF Tail(ts) # <<>> /\ Head(Tail(ts)) = RBrace
              THEN ParseOk(JsObject(<<>>), Tail(Tail(ts)))
              ELSE ParseFail
    ELSE IF Head(ts) = LBracket
         THEN IF Tail(ts) # <<>> /\ Head(Tail(ts)) = RBracket
              THEN ParseOk(JsArray(<<>>), Tail(Tail(ts)))
              ELSE ParseElements(Tail(ts), <<>>)
    ELSE ParseFail

\* the elements of an array after its "[" or after a ","
ParseElements(ts, acc) ==
    LET v == ParseValue(ts)
    IN IF ~ v.ok \/ v.rest = <<>> THEN ParseFail
       ELSE IF Head(v.rest) = Comma THEN ParseElements(Tail(v.rest), Append(acc, v.value))
       ELSE IF Head(v.rest) = RBracket
            THEN ParseOk(JsArray(Append(acc, v.value)), Tail(v.rest))
       ELSE ParseFail

JsonSyntaxError == <<"SyntaxError">>

\* JSON.parse(text)
JsonParse(text) ==
    LET r == ParseValue(text)
    IN IF r.ok /\ r.rest = <<>> THEN Returns(r.value) ELSE Throws(JsonSyntaxError)

FallbackSuggestions ==
    JsArray(<< JsString("Studio shot with dramatic lighting"),
               JsString("Lifestyle outdoors in sunlight"),
               JsString("Close-up product focus with bokeh") >>)

TextResponse(text) == [kind |-> "response", text |-> text]

\* response.text is undefined or a string of at most MaxTokens tokens.
SuggestReplies ==
    {NetworkFailure, TextResponse(None)}
      \cup {TextResponse(Some(ts)) : ts \in SeqsUpTo(JsonTokens, MaxTokens)}

\* The body of suggestPrompts, given what the awaited generateContent does.
SuggestPrompts(reply) ==
    IF reply.kind = "failure" THEN Returns(FallbackSuggestions)
    ELSE IF ~ reply.text.some \/ reply.text.val = <<>> THEN Returns(JsArray(<<>>))
    ELSE LET parsed == JsonParse(reply.text.val)
         IN IF parsed.ok THEN Returns(parsed.value) ELSE Returns(FallbackSuggestions)

\* suggestPrompts is called and awaits the service.
SuggestPromptsCall ==
    /\ sgPhase = "idle"
    /\ sgPhase' = "pending"
    /\ UNCHANGED <<sgReply, sgResult, retryVars, genVars, appVars, uiVars>>

\* The service answers and suggestPrompts settles.
SuggestPromptsSettle ==
    /\ sgPhase = "pending"
    /\ sgPhase' = "returned"
    /\ \E reply \in SuggestReplies :
          /\ sgReply' = reply
          /\ sgResult' = SuggestPrompts(reply)
    /\ UNCHANGED <<retryVars, genVars, appVars, uiVars>>

NextSuggest == SuggestPromptsCall \/ SuggestPromptsSettle

SpecSuggest == InitIdle /\ [][NextSuggest]_vars

-----------------------------------------------------------------------------
(* refinePrompt (geminiService.ts 175-194) and the Promptor (Promptor.tsx) *)

MaxRefines == 3

\* String.prototype.trim
RECURSIVE Trim(_)
Trim(s) ==
    IF s # <<>> /\ Head(s) = " " THEN Trim(Tail(s))
    ELSE IF s # <<>> /\ s[Len(s)] = " " THEN Trim(SubSeq(s, 1, Len(s) - 1))
    ELSE s

\* What the user can type in the idea field.
PromptorInputs ==
    {<<>>, <<" ">>, <<"a">>, <<" ", "a", " ">>, <<"b">>}

\* response.text of the refinement call: undefined, empty, blank or a prompt.
RefineReplies ==
    {NetworkFailure, TextResponse(None)}
      \cup {TextResponse(Some(t)) : t \in {<<>>, <<" ">>, <<"R", "1">>, <<"R", "2">>}}

\* refinePrompt with the catch block rethrowing instead of returning roughIdea
RefinePromptRethrows(roughIdea, reply) ==
    IF reply.kind = "failure"
    THEN Throws(NetworkError)
    ELSE IF reply.text.some /\ Truthy(reply.text.val)
         THEN Returns(reply.text.val)
         ELSE Returns(roughIdea)

\* refinePrompt: `return response.text || roughIdea` inside try, and
\* `return roughIdea` in the catch block.
RefinePrompt(roughIdea, reply) ==
    IF reply.kind = "failure"
    THEN Returns(roughIdea)
    ELSE IF reply.text.some /\ Truthy(reply.text.val)
         THEN Returns(reply.text.val)
         ELSE Returns(roughIdea)

\* onChange of the idea field
SetInput ==
    /\ \E v \in PromptorInputs : pInput' = v
    /\ UNCHANGED <<pRefined, pLoading, pCalls, pSeq, pShown, pLast, clientVars, onboardVars, dashVars>>

\* handleRefine up to the await of refinePrompt(input, context)
HandleRefine ==
    IF Trim(pInput) = <<>>
    THEN UNCHANGED vars
    ELSE /\ pSeq < MaxRefines
         /\ pLoading' = TRUE
         /\ pSeq' = pSeq + 1
         /\ pCalls' = pCalls \cup {[idea |-> pInput, seq |-> pSeq + 1]}
         /\ UNCHANGED <<pInput, pRefined, pShown, pLast, clientVars, onboardVars, dashVars>>

\* The Button is rendered with disabled={loading}.
ClickRefine ==
    /\ ~ pLoading
    /\ HandleRefine

\* onKeyDown of the idea field: e.key === 'Enter' && handleRefine()
EnterRefine == HandleRefine

\* refinePrompt settles and handleRefine resumes: setRefined, setLoading(false)
RefineSettles ==
    \E c \in pCalls, reply \in RefineReplies :
        LET result == RefinePrompt(c.idea, reply) IN
        /\ pCalls' = pCalls \ {c}
        /\ pLast' = [settled |-> TRUE, idea |-> c.idea, reply |-> reply,
                     result |-> result]
        /\ IF result.ok
           THEN /\ pRefined' = result.value
                /\ pLoading' = FALSE
                /\ pShown' = c.seq
           ELSE UNCHANGED <<pRefined, pLoading, pShown>>
        /\ UNCHANGED <<pInput, pSeq, clientVars, onboardVars, dashVars>>

NextRefine == SetInput \/ ClickRefine \/ EnterRefine \/ RefineSettles

SpecRefine == InitIdle /\ [][NextRefine]_vars

-----------------------------------------------------------------------------
(* analyzeImageForTraining (geminiService.ts 25-58), TrainingWizard.handleNext *)
(* and the view routing of App.tsx                                           *)

MaxFinalizes == 3

\* response.text of the analysis call: undefined, empty or a description.
AnalyzeReplies ==
    {NetworkFailure, TextResponse(None), TextResponse(Some(<<>>)),
     TextResponse(Some(<<"d">>))}

\* analyzeImageForTraining with the catch block returning the fallback text
\* instead of rethrowing
AnalyzeImageSwallows(reply) ==
    IF reply.kind = "failure"
    THEN Returns(<<"No description generated.">>)
    ELSE IF reply.text.some /\ Truthy(reply.text.val)
         THEN Returns(reply.text.val)
         ELSE Returns(<<"No description generated.">>)

\* analyzeImageForTraining, given the reply to its one generateContent
\* request: `return response.text || "No description generated."`, and
\* `throw error` in the catch block.
AnalyzeImageForTraining(reply) ==
    IF reply.kind = "failure"
    THEN Throws(NetworkError)
    ELSE IF reply.text.some /\ Truthy(reply.text.val)
         THEN Returns(reply.text.val)
         ELSE Returns(<<"No description generated.">>)

\* What the wizard's fields can hold.
WizardData ==
    [userImages : {<<>>, <<RawB>>}, productImages : {<<>>, <<DataUrlA>>},
     userName : {"", "Ann"}, productName : {"", "Mug"}]

\* What loadData reads: db.getProfiles / db.getGallery throw, or the
\* profiles hold a PERSON profile or none.
LoadResults == {Throws(NetworkError), Returns(NullUser), Returns(AppUser)}

\* loadData, run once on mount
LoadData ==
    /\ isLoading
    /\ \E read \in LoadResults :
          IF read.ok
          THEN /\ stateUser' = read.value
               /\ view' = (IF read.value = NullUser THEN AppStep.ONBOARDING ELSE view)
          ELSE UNCHANGED <<stateUser, view>>
    /\ isLoading' = FALSE
    /\ UNCHANGED <<wStep, wData, wAnalyzing, wCalls, wSeq, wEvent, obSaves,
                   clientVars, promptorVars, dashVars>>

\* The navbar, rendered when the view is not ONBOARDING: setView
SetView ==
    /\ ~ isLoading
    /\ view # AppStep.ONBOARDING
    /\ \E v \in {AppStep.DASHBOARD, AppStep.STUDIO} : view' = v
    /\ UNCHANGED <<isLoading, stateUser, wStep, wData, wAnalyzing, wCalls, wSeq,
                   wEvent, obSaves, clientVars, promptorVars, dashVars>>

\* handleUpdateUser, called by the Studio: the state is set after the
\* db.saveProfile write, and not at all when the write fails.
HandleUpdateUser ==
    /\ ~ isLoading
    /\ view = AppStep.STUDIO
    /\ \E written \in BOOLEAN :
          stateUser' = (IF written THEN Profile("Ann", <<RawB>>) ELSE stateUser)
    /\ UNCHANGED <<isLoading, view, wStep, wData, wAnalyzing, wCalls, wSeq,
                   wEvent, obSaves, clientVars, promptorVars, dashVars>>

\* The wizard's fields: setData({...data, field: value}); step 1 shows the
\* user fields and step 2 the product fields.
SetData ==
    /\ ~ isLoading
    /\ view = AppStep.ONBOARDING
    /\ \E d \in WizardData :
          /\ IF wStep = 1
             THEN d.productImages = wData.productImages
                  /\ d.productName = wData.productName
             ELSE d.userImages = wData.userImages /\ d.userName = wData.userName
          /\ wData' = d
    /\ UNCHANGED <<isLoading, view, stateUser, wStep, wAnalyzing, wCalls, wSeq,
                   wEvent, obSaves, clientVars, promptorVars, dashVars>>

\* handleNext up to its first await.  Step 1 moves to step 2 when the user
\* fields are filled; step 2 starts the finalisation when the product fields
\* are filled: setIsAnalyzing(true) and the PERSON analysis request.
HandleNext ==
    /\ ~ isLoading
    /\ view = AppStep.ONBOARDING
    /\ IF wStep = 1
       THEN IF wData.userImages = <<>> \/ wData.userName = ""
            THEN UNCHANGED vars
            ELSE /\ wStep' = 2
                 /\ UNCHANGED <<isLoading, view, stateUser, wData, wAnalyzing,
                                wCalls, wSeq, wEvent, obSaves, clientVars, promptorVars, dashVars>>
       ELSE IF wData.productImages = <<>> \/ wData.productName = ""
            THEN UNCHANGED vars
            ELSE /\ wSeq < MaxFinalizes
                 /\ wAnalyzing' = TRUE
                 /\ wSeq' = wSeq + 1
                 /\ wCalls' = wCalls \cup
                       {[id |-> wSeq + 1, stage |-> "PERSON", data |-> wData,
                         requests |-> 1, userDesc |-> <<>>]}
                 /\ UNCHANGED <<isLoading, view, stateUser, wStep, wData, wEvent,
                                obSaves, clientVars, promptorVars, dashVars>>

\* An analysis request of a finalisation settles and handleNext resumes:
\* after the PERSON analysis the PRODUCT analysis request is issued; after
\* the PRODUCT analysis onComplete runs handleOnboardingComplete up to its
\* db.saveProfile; a thrown analysis goes to catch (alert); finally
\* setIsAnalyzing(false).
AnalysisSettles ==
    \E c \in wCalls, reply \in AnalyzeReplies :
        LET result == AnalyzeImageForTraining(reply)
            Finalized(failedAt) ==
                [settled |-> TRUE, id |-> c.id, requests |-> c.requests,
                 failedAt |-> failedAt, reply |-> reply, result |-> result]
        IN
        /\ IF ~ result.ok
           THEN /\ wCalls' = wCalls \ {c}
                /\ wAnalyzing' = FALSE
                /\ wEvent' = Finalized(c.stage)
                /\ UNCHANGED obSaves
           ELSE IF c.stage = "PERSON"
           THEN /\ wCalls' = (wCalls \ {c}) \cup
                       {[c EXCEPT !.stage = "PRODUCT", !.requests = 2,
                                  !.userDesc = result.value]}
                /\ UNCHANGED <<wAnalyzing, wEvent, obSaves>>
           ELSE /\ wCalls' = wCalls \ {c}
                /\ obSaves' = obSaves \cup
                       {[id |-> c.id,
                         userProfile |-> Profile(c.data.userName, c.data.userImages)]}
                /\ wAnalyzing' = FALSE
                /\ wEvent' = Finalized("none")
        /\ UNCHANGED <<isLoading, view, stateUser, wStep, wData, wSeq, clientVars, promptorVars, dashVars>>

\* handleOnboardingComplete after its two db.saveProfile writes: the user is
\* set and the view becomes DASHBOARD; a failed write rejects the handler
\* before either.
OnboardingSaved ==
    \E s \in obSaves, written \in BOOLEAN :
        /\ obSaves' = obSaves \ {s}
        /\ IF written
           THEN /\ stateUser' = s.userProfile
                /\ view' = AppStep.DASHBOARD
           ELSE UNCHANGED <<stateUser, view>>
        /\ UNCHANGED <<isLoading, wStep, wData, wAnalyzing, wCalls, wSeq, wEvent,
                       clientVars, promptorVars, dashVars>>

NextOnboard ==
    \/ LoadData
    \/ SetView
    \/ HandleUpdateUser
    \/ SetData
    \/ HandleNext
    \/ AnalysisSettles
    \/ OnboardingSaved

SpecOnboard == InitIdle /\ [][NextOnboard]_vars

-----------------------------------------------------------------------------
(* Dashboard: product selection, the suggestion effect and handleGenerate  *)
(* (geminiService.ts 236-309)                                              *)

MaxSuggestCalls == 3

\* appState.products, in catalog order; a product's name stands for its id.
AppCatalog == <<Profile("Watch", <<DataUrlA>>), Profile("Bag", <<RawB>>)>>

\* appState.products.filter(p => selectedProductIds.includes(p.id))
SelectedProducts(ids) == SelectSeq(AppCatalog, LAMBDA p : Includes(ids, p.name))

\* primaryProduct?.id, with primaryProduct = selectedProducts[0] || null
PrimaryProductId(ids) ==
    IF SelectedProducts(ids) = <<>> THEN "undefined"
    ELSE SelectedProducts(ids)[1].name

\* What the service answers to a suggestion request of the Dashboard.
DashSuggestReplies ==
    {NetworkFailure, TextResponse(Some(<<LBracket, StrTok, RBracket>>))}

\* toggleProduct(id), and the effect that follows the render: when
\* primaryProduct?.id changed and a primary product exists, suggestPrompts
\* is called.
ToggleProduct ==
    \E i \in 1..Len(AppCatalog) :
        LET id == AppCatalog[i].name
            next == IF Includes(selectedProductIds, id)
                    THEN Without(selectedProductIds, id)
                    ELSE Append(selectedProductIds, id)
            primary == PrimaryProductId(next)
        IN /\ selectedProductIds' = next
           /\ IF primary # PrimaryProductId(selectedProductIds) /\ primary # "undefined"
              THEN /\ sugSeq < MaxSuggestCalls
                   /\ sugSeq' = sugSeq + 1
                   /\ sugCalls' = sugCalls \cup
                         {[seq |-> sugSeq + 1, productId |-> primary]}
              ELSE UNCHANGED <<sugSeq, sugCalls>>
           /\ UNCHANGED <<suggestions, sugShown, genSelected, nFeedback, fbLast, clientVars,
                          promptorVars, onboardVars>>

\* suggestPrompts(...).then(setSuggestions): a call of the effect settles.
SuggestionsArrive ==
    \E c \in sugCalls, reply \in DashSuggestReplies :
        LET result == SuggestPrompts(reply) IN
        /\ sugCalls' = sugCalls \ {c}
        /\ IF result.ok
           THEN /\ suggestions' = result.value
                /\ sugShown' = c.seq
           ELSE UNCHANGED <<suggestions, sugShown>>
        /\ UNCHANGED <<selectedProductIds, sugSeq, genSelected, nFeedback, fbLast, clientVars,
                       promptorVars, onboardVars>>

\* Dashboard.handleGenerate up to its await, with the products the user
\* selected: a mode other than USER_ONLY with no selected product only
\* alerts; otherwise generateBrandVisual is called with selectedProducts.
DashHandleGenerate ==
    /\ phase = "idle"
    /\ ~ isGenerating
    /\ Len(gallery) + Cardinality(pendingSaves) < MaxGallery
    /\ \E prompt \in TypedPrompts, mode \in GenerationModes :
          IF mode # USER_ONLY /\ SelectedProducts(selectedProductIds) = <<>>
          THEN UNCHANGED vars
          ELSE /\ isGenerating' = TRUE
               /\ genSelected' = selectedProductIds
               /\ GenerateBrandVisual(
                     GenArgs(prompt, mode, AppUser,
                             SelectedProducts(selectedProductIds), likedPrompts))
               /\ UNCHANGED <<gallery, likedPrompts, pendingFeedback, pendingSaves,
                              suggestVars, selectedProductIds, suggestions,
                              sugCalls, sugSeq, sugShown, nFeedback, fbLast,
                              promptorVars,
                              onboardVars>>

\* The Dashboard as mounted after startup: the first product of the catalog
\* is selected and the effect has called suggestPrompts for it.
InitDash ==
    /\ RetryIdle
    /\ SuggestIdle
    /\ PromptorIdle
    /\ isLoading = FALSE
    /\ view = AppStep.DASHBOARD
    /\ stateUser = AppUser
    /\ WizardIdle
    /\ gallery = StoredGallery
    /\ likedPrompts = <<>>
    /\ pendingFeedback = {}
    /\ pendingSaves = {}
    /\ isGenerating = FALSE
    /\ selectedProductIds = <<AppCatalog[1].name>>
    /\ suggestions = JsArray(<<>>)
    /\ sugCalls = {[seq |-> 1, productId |-> AppCatalog[1].name]}
    /\ sugSeq = 1
    /\ sugShown = 0
    /\ genSelected = <<>>
    /\ nFeedback = 0
    /\ fbLast = NoOutcome

NextDash ==
    \/ ToggleProduct
    \/ SuggestionsArrive
    \/ DashHandleGenerate
    \/ AttemptCoarse
    \/ BackoffElapsed
    \/ HandleGenerateSettled
    \/ ImageSaved
    \/ ImageSaveFails

SpecDash == InitDash /\ [][NextDash]_vars

-----------------------------------------------------------------------------
(* handleFeedback for any id (App.tsx 106-127) *)

MaxFeedbacks == 4

\* A gallery in which two images were generated from the same prompt.
FeedbackGallery ==
    << GeneratedImage(3, DataUri("x"), "p2", COMBINED),
       GeneratedImage(2, DataUri("x"), "p1", COMBINED),
       GeneratedImage(1, DataUri("x"), "p1", COMBINED) >>

\* handleFeedback(id, type) up to its await, for an id of the gallery or the
\* id 0 of no image: state.gallery.find(g => g.id === id); when the image
\* is found db.updateImage(updatedImg) is started, otherwise nothing is done.
OnFeedback ==
    /\ nFeedback < MaxFeedbacks
    /\ \E id \in GalleryIds \cup {0}, type \in {"like", "dislike"} :
          /\ fbLast' = [settled |-> TRUE, id |-> id, type |-> type]
          /\ pendingFeedback' =
                IF id \in GalleryIds
                THEN pendingFeedback \cup
                        {[id |-> id, type |-> type, targetImg |-> FindImage(id)]}
                ELSE pendingFeedback
    /\ nFeedback' = nFeedback + 1
    /\ UNCHANGED <<retryVars, genVars, gallery, likedPrompts, pendingSaves,
                   isGenerating, suggestVars, promptorVars, onboardVars,
                   selectedProductIds, suggestions, sugCalls, sugSeq, sugShown,
                   genSelected>>

InitFeedback ==
    /\ RetryIdle
    /\ SuggestIdle
    /\ PromptorIdle
    /\ isLoading = FALSE
    /\ view = AppStep.DASHBOARD
    /\ stateUser = AppUser
    /\ WizardIdle
    /\ DashIdle
    /\ gallery = FeedbackGallery
    /\ likedPrompts = <<>>
    /\ pendingFeedback = {}
    /\ pendingSaves = {}
    /\ isGenerating = FALSE

NextFeedback == OnFeedback \/ FeedbackWritten \/ FeedbackWriteFails

\* The application after startup, under feedback events alone.
SpecFeedback == InitFeedback /\ [][NextFeedback]_vars

-----------------------------------------------------------------------------
\* C1: retryOperation(operation, r) invokes the operation at most r+1 times;
\* when it rejects, all r+1 invocations have been made and failed and the
\* rejection carries the error of the last invocation; once settled no
\* further invocation is possible.
C1_RetryWithinBudget ==
    /\ calls <= budget + 1
    /\ retries = budget - (calls - (IF phase = "ready" THEN 0 ELSE 1))
    /\ phase = "rejected" =>
          /\ calls = budget + 1
          /\ outcome = Rejected(lastThrown)
          /\ ~ ENABLED NextRetry
    /\ phase = "resolved" => ~ ENABLED NextRetry

C1_Witness ==
    /\ phase = "rejected"
    /\ budget = 2
    /\ calls = 3
    /\ outcome = Rejected(<<"E2">>)

-----------------------------------------------------------------------------
(* What a request holds *)

ImagePartsOf(req) == SelectSeq(req.parts, IsImagePart)
TextPartsOf(req) == SelectSeq(req.parts, IsTextPart)
IsRefLine(l) == l.kind = "ref"
\* the reference labels of the instruction text, in text order
RefLabels(req) == SelectSeq(req.parts[Len(req.parts)].text, IsRefLine)
IsStyleLine(l) == l.kind = "style"
StyleLines(req) == SelectSeq(req.parts[Len(req.parts)].text, IsStyleLine)

\* A profile whose first image carries a base64 payload.
HasUsableImage(p) ==
    /\ ~ p.isNull
    /\ Len(p.images) > 0
    /\ CleanBase64(p.images[1]) # <<>>

\* The subjects whose first image the request is to carry, in order: the
\* user under USER_ONLY / COMBINED, then the products under PRODUCT_ONLY /
\* COMBINED, each as [subject, data].
ExpectedAttachments(a) ==
    LET u == IF a.mode \in {USER_ONLY, COMBINED} /\ HasUsableImage(a.user)
             THEN <<[subject |-> MainSubject, data |-> CleanBase64(a.user.images[1])]>>
             ELSE <<>>
        ps == IF a.mode \in {PRODUCT_ONLY, COMBINED}
              THEN SelectSeq(a.products, HasUsableImage)
              ELSE <<>>
    IN u \o [k \in 1..Len(ps) |->
                [subject |-> ps[k].name, data |-> CleanBase64(ps[k].images[1])]]

\* C2: in every request generateBrandVisual sends, the reference labels of
\* the instruction text match the attached image parts in count and order:
\* with N image parts the labels are [REF_1] .. [REF_N] and the k-th label
\* names the subject whose image is the k-th image part.
C2_LabelsMatchImageParts ==
    lastRequest.sent =>
        LET labels == RefLabels(lastRequest)
            images == ImagePartsOf(lastRequest)
            expect == ExpectedAttachments(genArgs)
        IN /\ Len(labels) = Len(images)
           /\ Len(images) = Len(expect)
           /\ \A k \in 1..Len(labels) :
                 /\ labels[k].idx = k
                 /\ labels[k].arg = expect[k].subject
                 /\ images[k].inlineData.data = expect[k].data

\* C5: a COMBINED request with a user holding one image and two products
\* holding one image each carries exactly three reference labels: [REF_1]
\* for the user, then [REF_2] and [REF_3] for the products in list order,
\* over the three images in the same order.
C5_CombinedThreeLabels ==
    ( /\ lastRequest.sent
      /\ genArgs.mode = COMBINED
      /\ HasUsableImage(genArgs.user) /\ Len(genArgs.user.images) = 1
      /\ Len(genArgs.products) = 2
      /\ \A i \in 1..2 : /\ HasUsableImage(genArgs.products[i])
                         /\ Len(genArgs.products[i].images) = 1 )
    => /\ RefLabels(lastRequest) =
            << RefLine(1, MainSubject),
               RefLine(2, genArgs.products[1].name),
               RefLine(3, genArgs.products[2].name) >>
       /\ ImagePartsOf(lastRequest) =
            << ImagePart(CleanBase64(genArgs.user.images[1])),
               ImagePart(CleanBase64(genArgs.products[1].images[1])),
               ImagePart(CleanBase64(genArgs.products[2].images[1])) >>

C5_Witness ==
    /\ lastRequest.sent
    /\ genArgs.mode = COMBINED
    /\ genArgs.user = Profile("Alex", <<DataUrlA>>)
    /\ genArgs.products = <<Profile("Bag", <<RawB>>), Profile("Watch", <<DataUrlA>>)>>
    /\ Len(RefLabels(lastRequest)) = 3

\* C6: a PRODUCT_ONLY request with two products that each have an image
\* labels them [REF_1] and [REF_2] and attaches no user image and no user
\* label, whether the user is null, has no image or has images.
C6_ProductOnlyStartsAtOne ==
    ( /\ lastRequest.sent
      /\ genArgs.mode = PRODUCT_ONLY
      /\ Len(genArgs.products) = 2
      /\ \A i \in 1..2 : HasUsableImage(genArgs.products[i]) )
    => /\ RefLabels(lastRequest) =
            << RefLine(1, genArgs.products[1].name),
               RefLine(2, genArgs.products[2].name) >>
       /\ ImagePartsOf(lastRequest) =
            << ImagePart(CleanBase64(genArgs.products[1].images[1])),
               ImagePart(CleanBase64(genArgs.products[2].images[1])) >>

C6_Witness ==
    /\ lastRequest.sent
    /\ genArgs.mode = PRODUCT_ONLY
    /\ genArgs.user = Profile("Alex", <<RawB, DataUrlA>>)
    /\ genArgs.products = <<Profile("Watch", <<DataUrlA>>), Profile("Bag", <<RawB>>)>>
    /\ Len(ImagePartsOf(lastRequest)) = 2

\* C10: every invocation of performGeneration sends a request, and every
\* request holds its image parts first and exactly one text part, which is
\* its last part, also when no image is attached.
C10_ImagesFirstTextLast ==
    /\ nRequests = calls
    /\ calls > 0 =>
          /\ lastRequest.sent
          /\ Len(TextPartsOf(lastRequest)) = 1
          /\ IsTextPart(lastRequest.parts[Len(lastRequest.parts)])
          /\ \A i \in 1..(Len(lastRequest.parts) - 1) : IsImagePart(lastRequest.parts[i])
          /\ Len(ImagePartsOf(lastRequest)) = Len(ExpectedAttachments(genArgs))

C10_Witness ==
    /\ lastRequest.sent
    /\ genArgs.mode = USER_ONLY
    /\ genArgs.user = NullUser
    /\ Len(lastRequest.parts) = 1
    /\ lastRequest.degraded
    /\ nRequests = 2

-----------------------------------------------------------------------------
(* Claims about retry and extraction, checked under SpecExtract *)

\* C7: a failed generation attempt is retried whatever its cause; a call
\* whose attempts all fail has issued exactly 3 requests when it reports
\* failure, and no call issues more than 3 requests.
C7_ThreeRequestsThenFailure ==
    /\ nRequests <= 3
    /\ phase = "rejected" => nRequests = 3
    /\ (phase \in {"backoff", "rejected"} /\ nRequests < 3) => phase = "backoff"
    /\ phase = "backoff" => ENABLED BackoffElapsed

C7_Witness ==
    /\ phase = "rejected"
    /\ nRequests = 3
    /\ outcome = Rejected(RefusalError("t2"))

\* the position of the first part that holds an inline image
FirstInlineIndex(parts) ==
    CHOOSE i \in 1..Len(parts) :
        /\ parts[i].inlineData.present
        /\ \A j \in 1..(i - 1) : ~ parts[j].inlineData.present

HasInline(reply) ==
    /\ reply.kind = "response"
    /\ FirstCandidateParts(reply).some
    /\ \E i \in 1..Len(FirstCandidateParts(reply).val) :
          FirstCandidateParts(reply).val[i].inlineData.present

\* C8: when the first candidate of the response holds an inline image part,
\* at any position, the attempt succeeds with 'data:image/png;base64,'
\* followed by the payload of the first such part, and no further attempt
\* is made.
C8_FirstInlineImageReturned ==
    HasInline(lastReply) =>
        LET parts == FirstCandidateParts(lastReply).val
        IN /\ phase = "resolved"
           /\ outcome = Resolved(<<"data:image/png;base64,",
                                   parts[FirstInlineIndex(parts)].inlineData.data>>)
           /\ ~ ENABLED NextExtract

C8_Witness ==
    /\ phase = "resolved"
    /\ calls = 2
    /\ lastReply.kind = "response"
    /\ FirstCandidateParts(lastReply).val =
          <<ResponsePart(NoInline, "t1"), ResponsePart(Inline("y"), NoText)>>

\* the non-empty texts of the parts, in order
NonEmptyTexts(parts) ==
    LET HasText(p) == p.text # NoText /\ p.text # ""
        ps == SelectSeq(parts, HasText)
    IN [k \in 1..Len(ps) |-> ps[k].text]

\* C9: when the first candidate holds no inline image part the attempt
\* fails: with the refusal error embedding the first non-empty text if
\* there is one, with the generic 'No image generated' error otherwise
\* (also when there is no candidate); the call rejects with the error of
\* the last attempt.
C9_RefusalOrNoImage ==
    /\ (lastReply.kind = "response" /\ ~ HasInline(lastReply)) =>
          LET parts == FirstCandidateParts(lastReply)
              texts == IF parts.some THEN NonEmptyTexts(parts.val) ELSE <<>>
          IN /\ phase \in {"backoff", "ready", "rejected"}
             /\ lastThrown = IF texts # <<>>
                             THEN <<"Model refused image generation: ", texts[1]>>
                             ELSE <<"No image generated. Please try a different prompt.">>
    /\ phase = "rejected" => outcome = Rejected(lastThrown)

C9_Witness ==
    /\ phase = "rejected"
    /\ lastReply.kind = "response"
    /\ FirstCandidateParts(lastReply) =
          Some(<<ResponsePart(NoInline, ""), ResponsePart(NoInline, "t2")>>)
    /\ outcome = Rejected(RefusalError("t2"))

-----------------------------------------------------------------------------
(* Claims about the liked-prompt list, checked under SpecApp *)

\* C3: when the liked-prompt list was built by 'like' events as
\* [p1, p2, p3], the STYLE PREFERENCE instruction of the next generation
\* holds p3, the most recently liked prompt, and no older entry.
C3_MostRecentLikedPrompt ==
    ( /\ lastRequest.sent
      /\ genArgs.likedPrompts = <<"p1", "p2", "p3">> )
    => StyleLines(lastRequest) = <<StyleLine("p3")>>

-----------------------------------------------------------------------------
(* Claims about suggestPrompts, checked under SpecSuggest *)

\* the text is a JSON array whose elements are all strings
IsArrayOfStringsText(ts) ==
    /\ Len(ts) >= 2
    /\ ts[1] = LBracket
    /\ ts[Len(ts)] = RBracket
    /\ \/ Len(ts) = 2
       \/ /\ Len(ts) % 2 = 1
          /\ \A i \in 2..(Len(ts) - 1) :
                ts[i] = (IF i % 2 = 0 THEN StrTok ELSE Comma)

\* the service returned a text that is not a JSON array of strings
MalformedOutput(reply) ==
    /\ reply.kind = "response"
    /\ reply.text.some
    /\ reply.text.val # <<>>
    /\ ~ IsArrayOfStringsText(reply.text.val)

\* C4: suggestPrompts never throws, and whenever the service call fails or
\* returns malformed structured output (not parseable, or parseable but not
\* an array of strings) it returns the fixed three-item fallback list.
C4_FallbackOnMalformedOutput ==
    sgPhase = "returned" =>
        /\ sgResult.ok
        /\ (sgReply.kind = "failure" \/ MalformedOutput(sgReply))
              => sgResult.value = FallbackSuggestions

-----------------------------------------------------------------------------
(* Claims about refinePrompt and the Promptor, checked under SpecRefine *)

\* the service call of the latest settled refinement failed or had no text
RefineFellBack ==
    \/ pLast.reply.kind = "failure"
    \/ ~ pLast.reply.text.some
    \/ pLast.reply.text.val = <<>>

\* C11: refinePrompt never raises to its caller: when the service call fails
\* or returns empty text it returns the original rough idea unchanged,
\* otherwise it returns the service's text.
C11_RefineFallsBackToIdea ==
    pLast.settled =>
        /\ pLast.result.ok
        /\ pLast.result.value =
              (IF RefineFellBack THEN pLast.idea ELSE pLast.reply.text.val)

\* a failed service call settled for an idea with surrounding blanks, and
\* the Promptor shows that idea as it was typed
C11_Witness ==
    /\ pLast.settled
    /\ pLast.reply.kind = "failure"
    /\ pLast.idea = <<" ", "a", " ">>
    /\ pLast.result.ok
    /\ pRefined = pLast.idea

\* C18: in the Promptor at most one refinePrompt call is in flight, the
\* loading flag is true exactly while a call is outstanding, and once no
\* call is outstanding the refined text shown is the result of the most
\* recently submitted idea.
C18_SingleRefineInFlight ==
    /\ Cardinality(pCalls) <= 1
    /\ pLoading <=> (pCalls # {})
    /\ (pCalls = {} /\ pSeq > 0) => pShown = pSeq


-----------------------------------------------------------------------------
(* Claims about the onboarding flow and the view, checked under SpecOnboard *)

\* the step ends a finalisation of the wizard
FinalisationEnds == wEvent' # wEvent

\* C12: analyzeImageForTraining issues one request per call and never
\* retries, and its error propagates: a finalisation that ends with a failed
\* PERSON analysis has issued one request, one that ends with a failed
\* PRODUCT analysis two, and the step that ends it with a failure carries
\* the service's error, calls no onComplete (no profile save is started, the
\* user and the view are unchanged) and leaves the analyzing flag false.
C12_AnalysisFailureEndsFinalisation ==
    [][ FinalisationEnds =>
          /\ wEvent'.requests = (IF wEvent'.failedAt = "PERSON" THEN 1 ELSE 2)
          /\ wAnalyzing' = FALSE
          /\ wEvent'.reply.kind = "failure" =>
                /\ wEvent'.failedAt # "none"
                /\ wEvent'.result = Throws(NetworkError)
                /\ UNCHANGED <<obSaves, stateUser, view>>
      ]_vars

\* a finalisation ended with a failed PRODUCT analysis after a successful
\* PERSON analysis, and the wizard is still shown with no user
C12_Witness ==
    /\ wEvent.settled
    /\ wEvent.reply.kind = "failure"
    /\ wEvent.failedAt = "PRODUCT"
    /\ wEvent.requests = 2
    /\ obSaves = {}
    /\ view = AppStep.ONBOARDING
    /\ stateUser = NullUser
    /\ wAnalyzing = FALSE

\* C16: once startup loading has finished, the Dashboard or Studio view is
\* shown only when a user profile exists in memory, and whenever no user
\* profile exists the view is ONBOARDING.
C16_ViewFollowsUser ==
    ~ isLoading =>
        /\ view \in {AppStep.DASHBOARD, AppStep.STUDIO} => stateUser # NullUser
        /\ stateUser = NullUser => view = AppStep.ONBOARDING


-----------------------------------------------------------------------------
(* Claims about the Dashboard, checked under SpecDash *)

\* C14: the products the Dashboard passes to generateBrandVisual are in the
\* order in which the user selected them, for any sequence of toggleProduct
\* events.
C14_ProductsInSelectionOrder ==
    (isGenerating /\ genArgs.op = "generate") =>
        [i \in 1..Len(genArgs.products) |-> genArgs.products[i].name] = genSelected

\* C17: the suggestions shown are those of the latest suggestPrompts call:
\* an earlier call's result never replaces the result of a later call, so
\* once no call is in flight the result stored last is the latest call's.
C17_LatestSuggestionsShown ==
    sugCalls = {} => sugShown = sugSeq


-----------------------------------------------------------------------------
(* Claim about persistence writes, checked under SpecApp *)

\* the image is an entry of the gallery
InGallery(g, img) == \E i \in 1..Len(g) : g[i] = img

\* C13: state updates are optimistic: once a generated image or a feedback
\* has been handed to the App handlers, the step that settles its
\* persistence write, whether the write succeeds or fails, leaves the
\* in-memory state updated (the image is in the gallery, the image carries
\* the feedback).
C13_UpdateDespiteFailedWrite ==
    [][ /\ \A img \in pendingSaves \ pendingSaves' : InGallery(gallery', img)
        /\ \A c \in pendingFeedback \ pendingFeedback' :
              \E i \in 1..Len(gallery') :
                  gallery'[i].id = c.id /\ gallery'[i].feedback = c.type
      ]_vars


-----------------------------------------------------------------------------
(* Claim about the liked-prompt list, checked under SpecFeedback *)

\* every liked prompt is the prompt of a gallery image whose feedback is 'like'
LikedPromptsAreLiked ==
    \A i \in 1..Len(likedPrompts) :
        \E j \in 1..Len(gallery) :
            /\ gallery[j].prompt = likedPrompts[i]
            /\ gallery[j].feedback = "like"

\* the step is a feedback event for an id the gallery does not hold
MissingIdEvent ==
    /\ nFeedback' # nFeedback
    /\ fbLast'.id \notin GalleryIds

\* C15: after any interleaving of like / dislike feedback events, events
\* issued while earlier ones still await their write included, every prompt
\* of likedPrompts is the prompt of at least one gallery image whose current
\* feedback is 'like'; and a feedback event for an id not in the gallery
\* changes nothing.
C15_LikedPromptsBelongToLikedImages ==
    [][ /\ LikedPromptsAreLiked'
        /\ MissingIdEvent => UNCHANGED <<gallery, likedPrompts, pendingFeedback>>
      ]_vars

\* a prompt is liked while a feedback call that looked its image up before
\* a later event on the same image was recorded is still awaiting its write
C15_Witness ==
    /\ likedPrompts # <<>>
    /\ \E c \in pendingFeedback : c.targetImg.feedback # FindImage(c.id).feedback
    /\ \E c \in pendingFeedback : c.type = "dislike"


====
